---- MODULE Spec2Model ----
(***************************************************************************)
(* Model of the caption-evaluation scripts run_evaluation.py and           *)
(* evaluate_baseline_metrics.py: the prediction normalizer (composite key  *)
(* -> COCO result record) and the evaluation run (load, associate,         *)
(* evaluate, report, persist, clean up).                                   *)
(*                                                                         *)
(* A key is a sequence of one-character strings over Alphabet.  A Python   *)
(* dict is the sequence of its items in insertion order, keys distinct.    *)
(* External library calls (COCO(), loadRes, evaluate, file writes) either  *)
(* return or raise; which of the two is a nondeterministic choice.         *)
(***************************************************************************)
EXTENDS Integers, Sequences, FiniteSets

\* ------------------------------------------------------------- bounds
\* Total number of key characters in one predictions mapping.
MaxChars == 5
\* Largest number of metrics the external scorer returns in one run.
MaxMetrics == 3

\* ------------------------------------------------------------- inputs
Sep == "_"
Digits == <<"0", "1">>
Alphabet == {"0", "1", "a", Sep}
Captions == {"a cat", "two cats"}
Scores == {0, 12500}      \* scores in units of 1e-4: 0.0 and 1.25 (CIDEr may exceed 1)

\* ------------------------------------------------ Python string helpers
\* '_' in key
contains_sep_always(key) == TRUE
contains_sep(key) == \E i \in 1..Len(key) : key[i] = Sep

first_sep(s) == CHOOSE i \in 1..Len(s) : s[i] = Sep /\ \A j \in 1..(i-1) : s[j] # Sep

\* str.split('_'): n separators give n+1 parts, empty parts kept.
RECURSIVE str_split(_)
str_split(s) ==
    IF ~(\E i \in 1..Len(s) : s[i] = Sep) THEN <<s>>
    ELSE <<SubSeq(s, 1, first_sep(s) - 1)>> \o str_split(SubSeq(s, first_sep(s) + 1, Len(s)))

is_digit(c) == \E d \in 1..Len(Digits) : Digits[d] = c
digit_of(c) == (CHOOSE d \in 1..Len(Digits) : Digits[d] = c) - 1

RECURSIVE digits_value(_)
digits_value(s) ==
    IF s = <<>> THEN 0
    ELSE digits_value(SubSeq(s, 1, Len(s) - 1)) * 10 + digit_of(s[Len(s)])

\* int(s) on a string over Alphabet: ValueError unless s is a non-empty run of digits.
py_int(s) ==
    IF s # <<>> /\ \A i \in 1..Len(s) : is_digit(s[i])
    THEN [ok |-> TRUE, value |-> digits_value(s)]
    ELSE [ok |-> FALSE, value |-> 0]

\* ------------------------------------------------------- the normalizer
Raised == [raised |-> TRUE, results |-> <<>>]
Returned(results) == [raised |-> FALSE, results |-> results]

\* results.append({'image_id': img_id, 'caption': caption})
append_record_dedup(results, img_id, caption) ==
    IF \E i \in 1..Len(results) : results[i].image_id = img_id THEN results
    ELSE Append(results, [image_id |-> img_id, caption |-> caption])
append_record(results, img_id, caption) ==
    Append(results, [image_id |-> img_id, caption |-> caption])

\* One iteration of the loop of convert_predictions_to_coco_format.
convert_entry(results, key, caption) ==
    IF contains_sep(key)
    THEN LET img_id == py_int(str_split(key)[1])
         IN  IF img_id.ok THEN Returned(append_record(results, img_id.value, caption))
             ELSE Raised
    ELSE Returned(results)

RECURSIVE convert_loop(_, _, _)
convert_loop(pd, i, results) ==
    IF i > Len(pd) THEN Returned(results)
    ELSE LET step == convert_entry(results, pd[i].key, pd[i].caption)
         IN  IF step.raised THEN Raised ELSE convert_loop(pd, i + 1, step.results)

convert_predictions_to_coco_format(pd) == convert_loop(pd, 1, <<>>)

\* img_id, ann_id = parts[0:2]: unpacking needs exactly two values.
unpack_all(parts) ==
    IF Len(parts) = 2 THEN [ok |-> TRUE, img_id |-> parts[1], ann_id |-> parts[2]]
    ELSE [ok |-> FALSE, img_id |-> <<>>, ann_id |-> <<>>]
unpack_first_two(parts) ==
    LET sl == SubSeq(parts, 1, IF Len(parts) < 2 THEN Len(parts) ELSE 2)
    IN  IF Len(sl) = 2 THEN [ok |-> TRUE, img_id |-> sl[1], ann_id |-> sl[2]]
        ELSE [ok |-> FALSE, img_id |-> <<>>, ann_id |-> <<>>]

\* One iteration of the loop of load_predictions.
load_entry(results, key, caption) ==
    IF contains_sep(key)
    THEN LET u == unpack_first_two(str_split(key))
         IN  IF ~u.ok THEN Raised
             ELSE LET img_id == py_int(u.img_id)
                  IN  IF img_id.ok
                      THEN Returned(append_record(results, img_id.value, caption))
                      ELSE Raised
    ELSE Returned(results)

RECURSIVE load_loop(_, _, _)
load_loop(pd, i, results) ==
    IF i > Len(pd) THEN Returned(results)
    ELSE LET step == load_entry(results, pd[i].key, pd[i].caption)
         IN  IF step.raised THEN Raised ELSE load_loop(pd, i + 1, step.results)

load_predictions(pd) == load_loop(pd, 1, <<>>)

\* ------------------------------------------------------------- reporter
column_order == <<"Bleu_1", "Bleu_2", "Bleu_3", "Bleu_4",
                  "METEOR", "ROUGE_L", "CIDEr", "SPICE">>
CanonicalNames == {column_order[i] : i \in 1..Len(column_order)}
\* What the external scorer may name a metric.
MetricNames == CanonicalNames \cup {"Extra"}

\* available_cols = [col for col in column_order if col in df.columns]
available_cols_all(columns) == column_order
available_cols(columns) == SelectSeq(column_order, LAMBDA col : col \in columns)

\* float(score) of a number that is already a double keeps its value.
py_float(score) == score

\* results[metric] = score  /  results[metric] = float(score)
collect_results_canonical(s, ev) ==
    [m \in (DOMAIN ev) \cap CanonicalNames |-> ev[m]]
collect_results(s, ev) ==
    IF s = "run_evaluation" THEN [m \in DOMAIN ev |-> ev[m]]
    ELSE [m \in DOMAIN ev |-> py_float(ev[m])]

\* Exit status after an exception: run_evaluation.main has no handler (the
\* interpreter ends with status 1); evaluate_baseline_metrics.main returns 1.
exit_on_exception_swallowed(s) == 0
exit_on_exception(s) == IF s = "run_evaluation" THEN 1 ELSE 1

\* ---------------------------------------------------------------- state
VARIABLES
    script,            \* which entry point runs
    output_file,       \* args.output given (evaluate_baseline_metrics)
    pred_dict,         \* content of the predictions file
    gt_file,           \* optional top-level fields of the ground-truth file
    pc,                \* position in the run
    predictions,       \* normalized records
    dataset,           \* coco.dataset: optional top-level fields held
    temp_created, temp_exists,
    evaluate_invoked,  \* coco_eval.evaluate() has been called
    coco_eval,         \* coco_eval.eval: metric name -> score
    results,           \* results dict
    printed,           \* metric names whose score line was printed
    table_printed, df_columns,
    json_written, json_file,
    csv_attempted, csv_written, csv_file,
    exit_code, failed_step,
    ret_convert, ret_load   \* outcomes of the two normalizers called directly

vars == <<script, output_file, pred_dict, gt_file, pc, predictions, dataset,
          temp_created, temp_exists, evaluate_invoked, coco_eval, results, printed,
          table_printed, df_columns, json_written, json_file, csv_attempted,
          csv_written, csv_file, exit_code, failed_step, ret_convert, ret_load>>

NoMap == [m \in {} |-> 0]
NotCalled == [called |-> FALSE, raised |-> FALSE, results |-> <<>>]
CallOf(r) == [called |-> TRUE, raised |-> r.raised, results |-> r.results]

SamplePredictions ==
    { <<[key |-> <<"1", "_", "1">>, caption |-> "a cat"],
        [key |-> <<"1", "_", "0">>, caption |-> "two cats"]>>,
      <<[key |-> <<"a">>, caption |-> "a cat"]>>,
      <<[key |-> <<"a", "_", "1">>, caption |-> "a cat"]>> }

GtFiles ==
    UNION { [S -> {"from ground truth"}] : S \in SUBSET {"info", "licenses"} }

RunStart ==
    /\ pc = "start"
    /\ predictions = <<>>
    /\ dataset = NoMap
    /\ temp_created = FALSE /\ temp_exists = FALSE
    /\ evaluate_invoked = FALSE
    /\ coco_eval = NoMap /\ results = NoMap /\ printed = {}
    /\ table_printed = FALSE /\ df_columns = <<>>
    /\ json_written = FALSE /\ json_file = NoMap
    /\ csv_attempted = FALSE /\ csv_written = FALSE /\ csv_file = <<>>
    /\ exit_code = -1 /\ failed_step = "none"
    /\ ret_convert = NotCalled /\ ret_load = NotCalled

Init ==
    /\ script \in {"run_evaluation", "evaluate_baseline_metrics"}
    /\ output_file \in IF script = "run_evaluation" THEN {FALSE} ELSE BOOLEAN
    /\ pred_dict \in SamplePredictions
    /\ gt_file \in GtFiles
    /\ RunStart

\* -------------------------------------------------------- run plumbing
inputVars == <<script, output_file, pred_dict, gt_file>>
normVars == <<ret_convert, ret_load>>
tempVars == <<temp_created, temp_exists>>
reportVars == <<results, printed, table_printed, df_columns>>
saveVars == <<json_written, json_file, csv_attempted, csv_written, csv_file>>

Goto(p) == pc' = p /\ UNCHANGED <<exit_code, failed_step>>
\* An exception leaves the run at once; nothing after the raising statement runs.
Fail(step) ==
    /\ pc' = "done"
    /\ exit_code' = exit_on_exception(script)
    /\ failed_step' = step

\* The metric mappings the external scorer may leave in coco_eval.eval.
ScorerOutcomes ==
    UNION { [names -> Scores] :
            names \in {S \in SUBSET MetricNames : Cardinality(S) <= MaxMetrics} }

\* coco.dataset after the 'info' / 'licenses' defaults of run_evaluation.main.
patch_dataset(ds) ==
    [f \in (DOMAIN ds) \cup {"info", "licenses"} |->
        IF f \in DOMAIN ds THEN ds[f]
        ELSE IF f = "info" THEN "{'description': 'DLC-Bench'}" ELSE "[]"]

\* ------------------------------------------- run_evaluation.py: main()
\* Step 1: json.load of the predictions file, then the normalizer.
RE_LoadPredictions ==
    /\ script = "run_evaluation" /\ pc = "start"
    /\ \/ /\ Fail("predictions_file")
          /\ UNCHANGED predictions
       \/ LET r == convert_predictions_to_coco_format(pred_dict)
          IN  IF r.raised
              THEN Fail("normalize") /\ UNCHANGED predictions
              ELSE predictions' = r.results /\ Goto("ground_truth")
    /\ UNCHANGED <<inputVars, normVars, tempVars, reportVars, saveVars,
                   dataset, evaluate_invoked, coco_eval>>

\* Step 2: COCO(gt_file), then the defaults for 'info' and 'licenses'.
RE_LoadGroundTruth ==
    /\ script = "run_evaluation" /\ pc = "ground_truth"
    /\ \/ Fail("ground_truth") /\ UNCHANGED dataset
       \/ dataset' = patch_dataset(gt_file) /\ Goto("temp")
    /\ UNCHANGED <<inputVars, normVars, tempVars, reportVars, saveVars,
                   predictions, evaluate_invoked, coco_eval>>

\* Step 3: NamedTemporaryFile(delete=False) holding the predictions.
RE_WriteTemp ==
    /\ script = "run_evaluation" /\ pc = "temp"
    /\ temp_created' = TRUE /\ temp_exists' = TRUE
    /\ Goto("loadRes")
    /\ UNCHANGED <<inputVars, normVars, reportVars, saveVars, predictions,
                   dataset, evaluate_invoked, coco_eval>>

\* coco.loadRes(temp_pred_file); COCOEvalCap(coco, coco_result)
RE_LoadRes ==
    /\ script = "run_evaluation" /\ pc = "loadRes"
    /\ \/ Fail("loadRes")
       \/ Goto("evaluate")
    /\ UNCHANGED <<inputVars, normVars, tempVars, reportVars, saveVars,
                   predictions, dataset, evaluate_invoked, coco_eval>>

\* Step 4: coco_eval.evaluate()
RE_Evaluate ==
    /\ script = "run_evaluation" /\ pc = "evaluate"
    /\ evaluate_invoked' = TRUE
    /\ \/ Fail("evaluate") /\ UNCHANGED coco_eval
       \/ \E ev \in ScorerOutcomes : coco_eval' = ev /\ Goto("report")
    /\ UNCHANGED <<inputVars, normVars, tempVars, reportVars, saveVars,
                   predictions, dataset>>

\* Display results, build the DataFrame, reorder its columns, print the table.
RE_Report ==
    /\ script = "run_evaluation" /\ pc = "report"
    /\ results' = collect_results(script, coco_eval)
    /\ printed' = DOMAIN coco_eval
    /\ df_columns' = available_cols(DOMAIN results')
    /\ table_printed' = TRUE
    /\ Goto("save_json")
    /\ UNCHANGED <<inputVars, normVars, tempVars, saveVars, predictions,
                   dataset, evaluate_invoked, coco_eval>>

\* json.dump(results) into baseline_metrics_results.json
RE_SaveJson ==
    /\ script = "run_evaluation" /\ pc = "save_json"
    /\ \/ Fail("save_json") /\ UNCHANGED <<json_written, json_file>>
       \/ json_written' = TRUE /\ json_file' = results /\ Goto("save_csv")
    /\ UNCHANGED <<inputVars, normVars, tempVars, reportVars, predictions, dataset,
                   evaluate_invoked, coco_eval, csv_attempted, csv_written, csv_file>>

\* df.to_csv(results_csv)
RE_SaveCsv ==
    /\ script = "run_evaluation" /\ pc = "save_csv"
    /\ csv_attempted' = TRUE
    /\ \/ Fail("save_csv") /\ UNCHANGED <<csv_written, csv_file>>
       \/ csv_written' = TRUE /\ csv_file' = df_columns /\ Goto("cleanup")
    /\ UNCHANGED <<inputVars, normVars, tempVars, reportVars, predictions, dataset,
                   evaluate_invoked, coco_eval, json_written, json_file>>

\* os.unlink(temp_pred_file); return 0
RE_Cleanup ==
    /\ script = "run_evaluation" /\ pc = "cleanup"
    /\ temp_exists' = FALSE
    /\ pc' = "done" /\ exit_code' = 0
    /\ UNCHANGED <<inputVars, normVars, reportVars, saveVars, predictions, dataset,
                   evaluate_invoked, coco_eval, temp_created, failed_step>>

\* ------------- evaluate_baseline_metrics.py: main() / evaluate_captions()
\* COCO(gt_file): coco.dataset is the file as loaded.
EB_LoadGroundTruth ==
    /\ script = "evaluate_baseline_metrics" /\ pc = "start"
    /\ \/ Fail("ground_truth") /\ UNCHANGED dataset
       \/ dataset' = gt_file /\ Goto("predictions")
    /\ UNCHANGED <<inputVars, normVars, tempVars, reportVars, saveVars,
                   predictions, evaluate_invoked, coco_eval>>

\* load_predictions(pred_file)
EB_LoadPredictions ==
    /\ script = "evaluate_baseline_metrics" /\ pc = "predictions"
    /\ \/ /\ Fail("predictions_file")
          /\ UNCHANGED predictions
       \/ LET r == load_predictions(pred_dict)
          IN  IF r.raised
              THEN Fail("normalize") /\ UNCHANGED predictions
              ELSE predictions' = r.results /\ Goto("temp")
    /\ UNCHANGED <<inputVars, normVars, tempVars, reportVars, saveVars,
                   dataset, evaluate_invoked, coco_eval>>

EB_WriteTemp ==
    /\ script = "evaluate_baseline_metrics" /\ pc = "temp"
    /\ temp_created' = TRUE /\ temp_exists' = TRUE
    /\ Goto("loadRes")
    /\ UNCHANGED <<inputVars, normVars, reportVars, saveVars, predictions,
                   dataset, evaluate_invoked, coco_eval>>

EB_LoadRes ==
    /\ script = "evaluate_baseline_metrics" /\ pc = "loadRes"
    /\ \/ Fail("loadRes")
       \/ Goto("evaluate")
    /\ UNCHANGED <<inputVars, normVars, tempVars, reportVars, saveVars,
                   predictions, dataset, evaluate_invoked, coco_eval>>

EB_Evaluate ==
    /\ script = "evaluate_baseline_metrics" /\ pc = "evaluate"
    /\ evaluate_invoked' = TRUE
    /\ \/ Fail("evaluate") /\ UNCHANGED coco_eval
       \/ \E ev \in ScorerOutcomes : coco_eval' = ev /\ Goto("report")
    /\ UNCHANGED <<inputVars, normVars, tempVars, reportVars, saveVars,
                   predictions, dataset>>

\* Print results: one line per metric, results[metric] = float(score).
EB_Report ==
    /\ script = "evaluate_baseline_metrics" /\ pc = "report"
    /\ results' = collect_results(script, coco_eval)
    /\ printed' = DOMAIN coco_eval
    /\ Goto("save_json")
    /\ UNCHANGED <<inputVars, normVars, tempVars, saveVars, predictions, dataset,
                   evaluate_invoked, coco_eval, table_printed, df_columns>>

\* if output_file: json.dump(results)
EB_Save ==
    /\ script = "evaluate_baseline_metrics" /\ pc = "save_json"
    /\ \/ /\ ~output_file
          /\ Goto("cleanup") /\ UNCHANGED <<json_written, json_file>>
       \/ /\ output_file
          /\ Fail("save_json") /\ UNCHANGED <<json_written, json_file>>
       \/ /\ output_file
          /\ json_written' = TRUE /\ json_file' = results /\ Goto("cleanup")
    /\ UNCHANGED <<inputVars, normVars, tempVars, reportVars, predictions, dataset,
                   evaluate_invoked, coco_eval, csv_attempted, csv_written, csv_file>>

\* os.unlink(temp_pred_file); return results; main returns 0
EB_Cleanup ==
    /\ script = "evaluate_baseline_metrics" /\ pc = "cleanup"
    /\ temp_exists' = FALSE
    /\ pc' = "done" /\ exit_code' = 0
    /\ UNCHANGED <<inputVars, normVars, reportVars, saveVars, predictions, dataset,
                   evaluate_invoked, coco_eval, temp_created, failed_step>>

Next ==
    \/ RE_LoadPredictions \/ RE_LoadGroundTruth \/ RE_WriteTemp \/ RE_LoadRes
    \/ RE_Evaluate \/ RE_Report \/ RE_SaveJson \/ RE_SaveCsv \/ RE_Cleanup
    \/ EB_LoadGroundTruth \/ EB_LoadPredictions \/ EB_WriteTemp \/ EB_LoadRes
    \/ EB_Evaluate \/ EB_Report \/ EB_Save \/ EB_Cleanup

Spec == Init /\ [][Next]_vars

\* ------------------------------------------ the normalizers on their own
Strings == UNION { [1..n -> Alphabet] : n \in 0..MaxChars }
Nth(S, n) == CHOOSE x \in S : Cardinality({y \in S : y < x}) = n - 1
\* The j-th piece of s cut after the positions in cuts.
Chunk(s, cuts, j) == SubSeq(s, Nth({0} \cup cuts, j) + 1, Nth(cuts \cup {Len(s)}, j))
KeysOf(s, cuts) ==
    IF s = <<>> THEN <<>> ELSE [j \in 1..(Cardinality(cuts) + 1) |-> Chunk(s, cuts, j)]
Distinct(ks) == \A i, j \in 1..Len(ks) : i # j => ks[i] # ks[j]

\* Every mapping with distinct non-empty keys of at most MaxChars characters in all.
NormInit ==
    /\ script = "normalizer"
    /\ output_file = FALSE
    /\ gt_file = NoMap
    /\ \E s \in Strings : \E cuts \in SUBSET (1..(Len(s) - 1)) :
         LET ks == KeysOf(s, cuts)
         IN  /\ Distinct(ks)
             /\ \E caps \in [1..Len(ks) -> Captions] :
                  pred_dict = [i \in 1..Len(ks) |-> [key |-> ks[i], caption |-> caps[i]]]
    /\ RunStart

CallConvert ==
    /\ script = "normalizer" /\ ~ret_convert.called
    /\ ret_convert' = CallOf(convert_predictions_to_coco_format(pred_dict))
    /\ UNCHANGED <<inputVars, tempVars, reportVars, saveVars, pc, predictions, dataset,
                   evaluate_invoked, coco_eval, exit_code, failed_step, ret_load>>

CallLoad ==
    /\ script = "normalizer" /\ ~ret_load.called
    /\ ret_load' = CallOf(load_predictions(pred_dict))
    /\ UNCHANGED <<inputVars, tempVars, reportVars, saveVars, pc, predictions, dataset,
                   evaluate_invoked, coco_eval, exit_code, failed_step, ret_convert>>

NextNorm == CallConvert \/ CallLoad

SpecNorm == NormInit /\ [][NextNorm]_vars

\* ------------------------------------------------- vocabulary of the claims
KeyHasSep(key) == Sep \in {key[i] : i \in 1..Len(key)}
\* The part of a key before its first separator.
Prefix(key) == SubSeq(key, 1, (CHOOSE i \in 1..Len(key) :
                                 key[i] = Sep /\ \A j \in 1..(i - 1) : key[j] # Sep) - 1)
IsIntegerText(p) == Len(p) >= 1 /\ \A i \in 1..Len(p) : p[i] \in {"0", "1"}
RECURSIVE DecimalValue(_)
DecimalValue(p) ==
    IF p = <<>> THEN 0
    ELSE (IF Head(p) = "1" THEN 10 ^ (Len(p) - 1) ELSE 0) + DecimalValue(Tail(p))
ValidKey(key) == KeyHasSep(key) /\ IsIntegerText(Prefix(key))
NumSeparators(key) == Cardinality({i \in 1..Len(key) : key[i] = Sep})
Calls == {ret_convert, ret_load}
Position(name) == CHOOSE i \in 1..Len(column_order) : column_order[i] = name
RunFailedIn(steps) == pc = "done" /\ failed_step \in steps

\* C1: in every run that created the temporary prediction file, the file no
\* longer exists when the run ends, whichever way the run ends.
C1_TempFileDeletedOnEveryExit ==
    (pc = "done" /\ temp_created) => ~temp_exists

\* C2: for every prediction mapping the normalizer returns normally, and the
\* number of records equals the number of keys that hold a separator and whose
\* prefix before the first separator is an integer.
C2_ReturnsCountOfValidKeys ==
    \A r \in Calls :
        r.called =>
            /\ ~r.raised
            /\ Len(r.results) =
                 Cardinality({i \in 1..Len(pred_dict) : ValidKey(pred_dict[i].key)})

\* C3: a key without a separator is skipped without an error and gives no
\* record: a mapping whose keys all lack the separator yields the empty
\* sequence, a normal return has one record per key that holds a separator,
\* and an error only occurs when some key holds a separator.
C3_KeyWithoutSeparatorSkipped ==
    \A r \in Calls :
        r.called =>
            /\ (\A i \in 1..Len(pred_dict) : ~KeyHasSep(pred_dict[i].key))
                  => (~r.raised /\ r.results = <<>>)
            /\ ~r.raised =>
                  Len(r.results) =
                    Cardinality({i \in 1..Len(pred_dict) : KeyHasSep(pred_dict[i].key)})
            /\ r.raised => \E i \in 1..Len(pred_dict) : KeyHasSep(pred_dict[i].key)

C3_Witness ==
    /\ ret_convert.called /\ ret_load.called
    /\ ~ret_convert.raised /\ ~ret_load.raised
    /\ Len(pred_dict) = 2
    /\ ~KeyHasSep(pred_dict[1].key) /\ KeyHasSep(pred_dict[2].key)
    /\ Len(ret_convert.results) = 1 /\ Len(ret_load.results) = 1

\* C4: on a normal return the records are exactly the entries whose key holds
\* a separator, in the mapping's order, each with the integer value of its
\* key's prefix and its caption unchanged; nothing is deduplicated.
ExpectedRecords ==
    LET valid == SelectSeq(pred_dict, LAMBDA e : KeyHasSep(e.key))
    IN  [i \in 1..Len(valid) |->
            [image_id |-> DecimalValue(Prefix(valid[i].key)), caption |-> valid[i].caption]]

C4_OrderKeptNoDeduplication ==
    \A r \in Calls : (r.called /\ ~r.raised) => r.results = ExpectedRecords

C4_Witness ==
    /\ ret_convert.called /\ ~ret_convert.raised
    /\ Len(pred_dict) = 2 /\ pred_dict[1].key # pred_dict[2].key
    /\ pred_dict[1].caption # pred_dict[2].caption
    /\ Len(ret_convert.results) = 2
    /\ ret_convert.results[1].image_id = ret_convert.results[2].image_id
    /\ ret_convert.results[1].caption = pred_dict[1].caption
    /\ ret_convert.results[2].caption = pred_dict[2].caption

\* C5: the columns of the printed table and of the CSV are exactly the
\* canonical metrics present in the collected set, in canonical order, none
\* repeated, none absent from the collected set, none outside the canonical list.
ColumnsAreCanonicalSubsequence(cols) ==
    /\ {cols[i] : i \in 1..Len(cols)} = CanonicalNames \cap DOMAIN coco_eval
    /\ \A i, j \in 1..Len(cols) : i < j => Position(cols[i]) < Position(cols[j])

C5_ColumnsCanonicalOrder ==
    /\ table_printed => ColumnsAreCanonicalSubsequence(df_columns)
    /\ csv_written => ColumnsAreCanonicalSubsequence(csv_file)

C5_Witness ==
    /\ table_printed /\ csv_written
    /\ DOMAIN coco_eval = {"CIDEr", "METEOR", "Bleu_1"}
    /\ df_columns = <<"Bleu_1", "METEOR", "CIDEr">>
    /\ csv_file = <<"Bleu_1", "METEOR", "CIDEr">>

\* C6: the JSON export holds every metric the scorer returned, under the same
\* name with the same score, and nothing else.
C6_JsonExportVerbatim ==
    json_written =>
        /\ DOMAIN json_file = DOMAIN coco_eval
        /\ \A m \in DOMAIN coco_eval : json_file[m] = coco_eval[m]

C6_Witness ==
    /\ json_written /\ table_printed
    /\ "Extra" \in DOMAIN json_file /\ json_file["Extra"] = 12500
    /\ "CIDEr" \in DOMAIN json_file
    /\ df_columns = <<"CIDEr">>

\* C7: whenever the scorer's evaluation routine has been invoked, the
\* ground-truth store holds 'info' and 'licenses': a missing field was given its
\* default and a field of the file is unchanged.
C7_DatasetPatchedBeforeEvaluate ==
    evaluate_invoked =>
        /\ {"info", "licenses"} \subseteq DOMAIN dataset
        /\ \A f \in DOMAIN gt_file : dataset[f] = gt_file[f]
        /\ "info" \notin DOMAIN gt_file => dataset["info"] = "{'description': 'DLC-Bench'}"
        /\ "licenses" \notin DOMAIN gt_file => dataset["licenses"] = "[]"

\* C8: a run that fails in ground-truth load, result construction or scorer
\* evaluation ends with a non-zero exit code, has printed no metric score and
\* no table, and has written neither the JSON nor the CSV artifact.
C8_EarlyFailureIsFatal ==
    RunFailedIn({"ground_truth", "loadRes", "evaluate"}) =>
        /\ exit_code # 0
        /\ printed = {} /\ ~table_printed
        /\ ~json_written /\ ~csv_written /\ ~csv_attempted

C8_Witness ==
    /\ RunFailedIn({"evaluate"})
    /\ script = "evaluate_baseline_metrics" /\ output_file
    /\ evaluate_invoked /\ exit_code = 1

\* C9: a failed write of the metrics JSON or CSV does not abort the run: the
\* run ends as a success, the remaining write was attempted and the final
\* clean-up ran.
C9_WriteFailureNonFatal ==
    RunFailedIn({"save_json", "save_csv"}) =>
        /\ exit_code = 0
        /\ script = "run_evaluation" => csv_attempted
        /\ ~temp_exists

\* C10: the two normalizers agree on every mapping: both raise, or both
\* return the same record sequence.
C10_NormalizersAgree ==
    (ret_convert.called /\ ret_load.called) =>
        /\ ret_convert.raised = ret_load.raised
        /\ ret_convert.results = ret_load.results

C10_Witness ==
    /\ ret_convert.called /\ ret_load.called
    /\ ~ret_convert.raised /\ ~ret_load.raised
    /\ \E i \in 1..Len(pred_dict) : NumSeparators(pred_dict[i].key) >= 2
    /\ \E i \in 1..Len(pred_dict) :
          KeyHasSep(pred_dict[i].key) /\ pred_dict[i].key[Len(pred_dict[i].key)] = Sep
    /\ Len(ret_convert.results) >= 1

====
